---- MODULE Spec2Model ----
(***************************************************************************)
(* The useEmails hook (collection store, query, optimistic mutation) with  *)
(* the remote boundary emailAPI it calls.  One action is one synchronous   *)
(* segment of a handler (the code between two awaits) together with the    *)
(* effects React runs after the commit of that segment.                    *)
(***************************************************************************)
EXTENDS Integers, Sequences, FiniteSets, TLC

VARIABLES
    emails,          \* useState([])    : the snapshot, an array of records
    filteredEmails,  \* useState([])    : result of applyFiltersAndSorting
    loading,         \* useState(true)
    error,           \* useState(null)
    refreshing,      \* useState(false)
    filters,         \* useState({search:'', priority:'all', ...})
    sortBy,          \* useState('received_at')
    sortOrder,       \* useState('desc')
    currentPage,     \* useState(1)
    pageSize,        \* useState(20)
    totalEmails,     \* useState(0)
    selectedEmails,  \* useState([])    : array of ids
    selectAll,       \* useState(false)
    emailCache,      \* useState(new Map()) : id -> record
    lastFetch,       \* useState(null)
    remote,          \* the collection held behind emailAPI
    inflight,        \* getEmails requests sent and not yet settled
    op,              \* the mutation call whose promise is still pending
    result,          \* how the most recently settled call ended
    clock,           \* Date.now()
    calls,           \* number of calls made through the hook interface so far
    ticks,           \* number of clock advances so far
    remoteFailed,    \* some remote call has failed so far
    management,      \* the state of the EmailManagement component
    pending,         \* effects of the last commit that have not run yet
    editor,          \* ResponseEditor: its email prop and extractedInfo
    card,            \* EmailCard: its email prop and contactInfo
    sidebar          \* Sidebar of App: totalCount, urgentCount, quickStats

hookVars == <<emails, filteredEmails, loading, error, refreshing, filters,
              sortBy, sortOrder, currentPage, pageSize, totalEmails,
              selectedEmails, selectAll, emailCache, lastFetch>>
envVars == <<remote, inflight, op, result, clock, calls, ticks, remoteFailed>>
panelVars == <<editor, card, sidebar>>
viewVars == <<management, pending, editor, card, sidebar>>
vars == <<emails, filteredEmails, loading, error, refreshing, filters,
          sortBy, sortOrder, currentPage, pageSize, totalEmails,
          selectedEmails, selectAll, emailCache, lastFetch,
          remote, inflight, op, result, clock, calls, ticks, remoteFailed,
          management, pending, editor, card, sidebar>>

----------------------------------------------------------------------------
(* Bounds of the model *)

MaxCalls == 2
MaxTicks == 2
MaxViews == 3
MaxSnapshot == 2
MaxBatch == 1

(* Constants of the program *)

\* Instants are whole seconds: every duration of the program, written in
\* milliseconds in the source, is divided by 1000.
CACHE_DURATION == (5 * 60 * 1000) \div 1000
API_TIMEOUT == 30000
DefaultPageSize == 20

Null == "null"
NullTime == -1
Unset == "undefined"
LoadError == "Failed to load emails"
StartTime == 1000

----------------------------------------------------------------------------
(* Raw records as the remote boundary returns them.  RecB is a record the  *)
(* source sends without labels and without a status.                       *)

RecA ==
    [id |-> 1, sender |-> <<"a", "@", "x">>, subject |-> <<"U", "r", "g">>,
     body |-> <<"h", "i">>, received_at |-> 500,
     priority |-> "high", sentiment |-> "negative", status |-> "pending",
     category |-> "technical"]

RecB ==
    [id |-> 2, sender |-> <<"b", "@", "x">>, subject |-> <<"h", "e", "l", "p">>,
     body |-> <<"o", "k">>, received_at |-> 900,
     priority |-> Unset, sentiment |-> Unset, status |-> Unset,
     category |-> Unset]

\* a second record that carries the identifier of RecA
RecA2 ==
    [id |-> 1, sender |-> <<"a", "@", "x">>, subject |-> <<"U", "r", "g">>,
     body |-> <<"o", "k">>, received_at |-> 700,
     priority |-> "low", sentiment |-> "positive", status |-> "resolved",
     category |-> "general"]

RemoteInits == {<< >>, <<RecA>>, <<RecA, RecB>>, <<RecA, RecA2>>}

Patches == {[status |-> "resolved"]}

BulkStatuses == {"resolved"}

----------------------------------------------------------------------------
(* Array helpers *)

IdsOf(list) == {list[i].id : i \in 1..Len(list)}

Includes(list, x) == \E i \in 1..Len(list) : list[i] = x

MapIds(list) == [i \in 1..Len(list) |-> list[i].id]

\* { ...email, ...updates }
Merge(email, updates) ==
    [f \in DOMAIN email |-> IF f \in DOMAIN updates THEN updates[f] ELSE email[f]]

\* newCache.set(email.id, email) for each email of the list, in order
CacheOf(list) ==
    [i \in IdsOf(list) |->
        list[CHOOSE k \in 1..Len(list) :
                /\ list[k].id = i
                /\ \A j \in 1..Len(list) : list[j].id = i => j <= k]]

----------------------------------------------------------------------------
(* applyFiltersAndSorting *)

UpperCase ==
    <<"A", "B", "C", "D", "E", "F", "G", "H", "I", "J", "K", "L", "M",
      "N", "O", "P", "Q", "R", "S", "T", "U", "V", "W", "X", "Y", "Z">>

LowerCase ==
    <<"a", "b", "c", "d", "e", "f", "g", "h", "i", "j", "k", "l", "m",
      "n", "o", "p", "q", "r", "s", "t", "u", "v", "w", "x", "y", "z">>

LowerOf ==
    [c \in {UpperCase[i] : i \in 1..26} |->
        LowerCase[CHOOSE i \in 1..26 : UpperCase[i] = c]]

\* String.prototype.toLowerCase
toLowerCase(text) ==
    [i \in 1..Len(text) |->
        IF text[i] \in DOMAIN LowerOf THEN LowerOf[text[i]] ELSE text[i]]

\* String.prototype.includes
includes(text, part) ==
    \E i \in 0..(Len(text) - Len(part)) : SubSeq(text, i + 1, i + Len(part)) = part

\* email[field]?.toLowerCase().includes(searchLower): a record without the
\* field gives undefined, which is falsy
FieldIncludes(email, field, searchLower) ==
    field \in DOMAIN email /\ includes(toLowerCase(email[field]), searchLower)

\* a search that looks at the subject only
MatchesSearch_SubjectOnly(email, search) ==
    FieldIncludes(email, "subject", toLowerCase(search))

MatchesSearch(email, search) ==
    \/ FieldIncludes(email, "subject", toLowerCase(search))
    \/ FieldIncludes(email, "sender", toLowerCase(search))
    \/ FieldIncludes(email, "body", toLowerCase(search))

DAY_MS == (24 * 60 * 60 * 1000) \div 1000

\* Date.prototype.toDateString, as the number of the calendar day
toDateString(t) == t \div DAY_MS

MatchesDateRange(email, dateRange, now) ==
    CASE dateRange = "today" -> toDateString(email.received_at) = toDateString(now)
      [] dateRange = "week" -> email.received_at >= now - 7 * DAY_MS
      [] dateRange = "month" -> email.received_at >= now - 30 * DAY_MS
      [] OTHER -> TRUE

\* the priority facet tested for being set instead of for 'all'
FilterEmails_Truthy(list, flt, now) ==
    LET s1 == IF flt.search # << >>
              THEN SelectSeq(list, LAMBDA e : MatchesSearch(e, flt.search))
              ELSE list
        s2 == SelectSeq(s1, LAMBDA e : e.priority = flt.priority)
        s3 == IF flt.sentiment # "all"
              THEN SelectSeq(s2, LAMBDA e : e.sentiment = flt.sentiment) ELSE s2
        s4 == IF flt.status # "all"
              THEN SelectSeq(s3, LAMBDA e : e.status = flt.status) ELSE s3
        s5 == IF flt.category # "all"
              THEN SelectSeq(s4, LAMBDA e : e.category = flt.category) ELSE s4
    IN  IF flt.dateRange # "all"
        THEN SelectSeq(s5, LAMBDA e : MatchesDateRange(e, flt.dateRange, now))
        ELSE s5

FilterEmails(list, flt, now) ==
    LET s1 == IF flt.search # << >>
              THEN SelectSeq(list, LAMBDA e : MatchesSearch(e, flt.search))
              ELSE list
        s2 == IF flt.priority # "all"
              THEN SelectSeq(s1, LAMBDA e : e.priority = flt.priority) ELSE s1
        s3 == IF flt.sentiment # "all"
              THEN SelectSeq(s2, LAMBDA e : e.sentiment = flt.sentiment) ELSE s2
        s4 == IF flt.status # "all"
              THEN SelectSeq(s3, LAMBDA e : e.status = flt.status) ELSE s3
        s5 == IF flt.category # "all"
              THEN SelectSeq(s4, LAMBDA e : e.category = flt.category) ELSE s4
    IN  IF flt.dateRange # "all"
        THEN SelectSeq(s5, LAMBDA e : MatchesDateRange(e, flt.dateRange, now))
        ELSE s5

\* UTF-16 code units of the characters the texts of the model are made of
CharCodes ==
    {<<"@", 64>>, <<"A", 65>>, <<"B", 66>>, <<"G", 71>>, <<"H", 72>>,
     <<"R", 82>>, <<"U", 85>>, <<"a", 97>>, <<"b", 98>>, <<"e", 101>>,
     <<"g", 103>>, <<"h", 104>>, <<"i", 105>>, <<"k", 107>>, <<"l", 108>>,
     <<"o", 111>>, <<"p", 112>>, <<"r", 114>>, <<"u", 117>>, <<"x", 120>>}

charCodeAt(text, k) == (CHOOSE c \in CharCodes : c[1] = text[k])[2]

\* x < y on two strings: the first code unit that differs decides, a proper
\* prefix comes first
StringLess(x, y) ==
    \E k \in 1..(Len(y)) :
        /\ \A j \in 1..(k - 1) : j <= Len(x) /\ x[j] = y[j]
        /\ \/ k = Len(x) + 1
           \/ k <= Len(x) /\ charCodeAt(x, k) < charCodeAt(y, k)

\* the fields that hold an instant; the others that a list is sorted by
\* hold a text
DateFields == {"received_at", "sent_date"}

\* x < y of JavaScript on the values of field key of a and b: a record
\* without the field gives undefined (or an invalid Date), and every
\* comparison with it is false
Less(a, b, key) ==
    /\ key \in DOMAIN a
    /\ key \in DOMAIN b
    /\ IF key \in DateFields THEN a[key] < b[key] ELSE StringLess(a[key], b[key])

\* the comparator handed to filtered.sort
Compare(a, b, key, order) ==
    IF order = "asc"
    THEN (IF Less(b, a, key) THEN 1 ELSE -1)
    ELSE (IF Less(a, b, key) THEN 1 ELSE -1)

Orderings(n) ==
    {p \in [1..n -> 1..n] : \A i, j \in 1..n : i # j => p[i] # p[j]}

\* Array.prototype.sort, given the answers cmp of its comparator.  Two
\* elements the comparator orders consistently come out in that order; two
\* elements it calls equal keep their order (the sort is stable); for two
\* elements it answers inconsistently (below each other) the order is left
\* to the engine
Sort(list, cmp) ==
    LET n == Len(list)
        Allowed(p) ==
            \A i, j \in 1..n :
                i < j =>
                    /\ ~(cmp[<<p[j], p[i]>>] < 0 /\ cmp[<<p[i], p[j]>>] > 0)
                    /\ (cmp[<<p[i], p[j]>>] = 0 /\ cmp[<<p[j], p[i]>>] = 0)
                          => p[i] < p[j]
    IN  {[i \in 1..n |-> list[p[i]]] : p \in {q \in Orderings(n) : Allowed(q)}}

\* the lists applyFiltersAndSorting may hand to setFilteredEmails
applyFiltersAndSorting(list, flt, key, order, now) ==
    LET filtered == FilterEmails(list, flt, now)
    IN  Sort(filtered,
             [p \in (1..Len(filtered)) \X (1..Len(filtered)) |->
                 Compare(filtered[p[1]], filtered[p[2]], key, order)])

----------------------------------------------------------------------------
(* filterAndSortEmails of the EmailManagement component.  Instant 0 is the *)
(* local midnight that begins a year; years have the twelve months of a    *)
(* common year and days have DAY_MS (no daylight-saving shift).            *)

DaysInYear == 365

\* days of the year before the first day of month m (0 = January)
DaysBeforeMonth ==
    <<0, 31, 59, 90, 120, 151, 181, 212, 243, 273, 304, 334>>

getFullYear(t) == (t \div DAY_MS) \div DaysInYear

getMonth(t) ==
    LET d == (t \div DAY_MS) % DaysInYear
    IN  CHOOSE m \in 0..11 :
            /\ DaysBeforeMonth[m + 1] <= d
            /\ m < 11 => d < DaysBeforeMonth[m + 2]

\* new Date(year, month, day): local midnight; a month outside 0..11 and a
\* day below 1 carry into the neighbouring year and month
NewDate(year, month, day) ==
    ((year + (month \div 12)) * DaysInYear
        + DaysBeforeMonth[(month % 12) + 1] + (day - 1)) * DAY_MS

\* date.setHours(0, 0, 0, 0)
setHours0(t) == (t \div DAY_MS) * DAY_MS

\* date.setDate(date.getDate() + n)
setDate(t, n) == t + n * DAY_MS

\* the date filter: new Date(undefined) is an invalid Date, which every
\* comparison answers with false
MatchesDate(email, date, now) ==
    LET today == setHours0(now)
        yesterday == setDate(today, -1)
        last7Days == setDate(today, -7)
        last30Days == setDate(today, -30)
        thisMonthStart == NewDate(getFullYear(today), getMonth(today), 1)
        lastMonthStart == NewDate(getFullYear(today), getMonth(today) - 1, 1)
        lastMonthEnd == NewDate(getFullYear(today), getMonth(today), 0)
        valid == "sent_date" \in DOMAIN email
        emailDate == email.sent_date
    IN  CASE date = "today" -> valid /\ emailDate >= today
          [] date = "yesterday" -> valid /\ emailDate >= yesterday /\ emailDate < today
          [] date = "last7days" -> valid /\ emailDate >= last7Days
          [] date = "last30days" -> valid /\ emailDate >= last30Days
          [] date = "thisMonth" -> valid /\ emailDate >= thisMonthStart
          [] date = "lastMonth" ->
                valid /\ emailDate >= lastMonthStart /\ emailDate <= lastMonthEnd
          [] OTHER -> TRUE

\* email[field] && email[field].toLowerCase().includes(searchLower)
FieldMatches(email, field, searchLower) ==
    /\ field \in DOMAIN email
    /\ email[field] # << >>
    /\ includes(toLowerCase(email[field]), searchLower)

\* the predicate handed to emails.filter
MatchesAll(email, searchQuery, selectedFilters, now) ==
    LET searchLower == toLowerCase(searchQuery)
        matchesSearch ==
            \/ searchQuery = << >>
            \/ FieldMatches(email, "subject", searchLower)
            \/ FieldMatches(email, "body", searchLower)
            \/ FieldMatches(email, "sender", searchLower)
        matchesCategory ==
            selectedFilters.category = "all" \/ email.category = selectedFilters.category
        matchesPriority ==
            selectedFilters.priority = "all" \/ email.priority = selectedFilters.priority
        matchesStatus ==
            selectedFilters.status = "all" \/ email.status = selectedFilters.status
        matchesSentiment ==
            selectedFilters.sentiment = "all" \/ email.sentiment = selectedFilters.sentiment
        matchesDate ==
            selectedFilters.date = "all" \/ MatchesDate(email, selectedFilters.date, now)
    IN  /\ matchesSearch /\ matchesCategory /\ matchesPriority
        /\ matchesStatus /\ matchesSentiment /\ matchesDate

\* valueA < valueB after the conversions of the comparator: a Date for
\* sent_date, lower case for a string
LessValue(a, b, key) ==
    /\ key \in DOMAIN a
    /\ key \in DOMAIN b
    /\ IF key \in DateFields THEN a[key] < b[key]
       ELSE StringLess(toLowerCase(a[key]), toLowerCase(b[key]))

\* the comparator handed to filtered.sort
CompareValues(a, b, key, order) ==
    IF LessValue(a, b, key) THEN (IF order = "asc" THEN -1 ELSE 1)
    ELSE IF LessValue(b, a, key) THEN (IF order = "asc" THEN 1 ELSE -1)
    ELSE 0

\* the lists filterAndSortEmails may hand to setFilteredEmails
filterAndSortEmails(list, searchQuery, selectedFilters, key, order, now) ==
    LET filtered ==
            SelectSeq(list, LAMBDA e : MatchesAll(e, searchQuery, selectedFilters, now))
    IN  Sort(filtered,
             [p \in (1..Len(filtered)) \X (1..Len(filtered)) |->
                 CompareValues(filtered[p[1]], filtered[p[2]], key, order)])

----------------------------------------------------------------------------
(* The keyword classifiers of EmailManagement.  A text is a sequence of    *)
(* characters; a value that is undefined is the one-element sequence       *)
(* Undefined, which is no text.                                            *)

Undefined == <<Unset>>

\* email[field] of a record whose source left the field out
Field(email, field) == IF field \in DOMAIN email THEN email[field] ELSE Undefined

\* a test that takes the empty string for a text
Falsy_UndefinedOnly(value) == value = Undefined

\* !value
Falsy(value) == value = Undefined \/ value = << >>

\* text.includes(w) || ... for the words of a lexicon
includesAny(text, words) == \E w \in words : includes(text, w)

HighWords == {<<"u", "r", "g", "e", "n", "t">>, <<"c", "r", "i", "t", "i", "c", "a", "l">>, <<"i", "m", "m", "e", "d", "i", "a", "t", "e">>}

MediumWords == {<<"h", "e", "l", "p">>, <<"s", "u", "p", "p", "o", "r", "t">>}

NegativeWords == {<<"e", "r", "r", "o", "r">>, <<"i", "s", "s", "u", "e">>, <<"p", "r", "o", "b", "l", "e", "m">>, <<"c", "a", "n", "n", "o", "t">>, <<"f", "a", "i", "l", "e", "d">>}

PositiveWords == {<<"t", "h", "a", "n", "k">>, <<"a", "p", "p", "r", "e", "c", "i", "a", "t", "e">>, <<"g", "r", "e", "a", "t">>, <<"g", "o", "o", "d">>}

AccountWords == {<<"l", "o", "g", "i", "n">>, <<"p", "a", "s", "s", "w", "o", "r", "d">>, <<"a", "c", "c", "o", "u", "n", "t">>}

BillingWords == {<<"b", "i", "l", "l", "i", "n", "g">>, <<"p", "a", "y", "m", "e", "n", "t">>, <<"c", "h", "a", "r", "g", "e", "d">>, <<"r", "e", "f", "u", "n", "d">>, <<"p", "r", "i", "c", "i", "n", "g">>}

TechnicalWords == {<<"t", "e", "c", "h", "n", "i", "c", "a", "l">>, <<"e", "r", "r", "o", "r">>, <<"b", "u", "g">>, <<"i", "s", "s", "u", "e">>}

FeatureWords == {<<"f", "e", "a", "t", "u", "r", "e">>, <<"e", "n", "h", "a", "n", "c", "e", "m", "e", "n", "t">>, <<"s", "u", "g", "g", "e", "s", "t", "i", "o", "n">>}

\* a classifier that looks for the medium words first
getPriority_MediumFirst(subject) ==
    IF Falsy(subject) THEN "medium"
    ELSE LET lowerSubject == toLowerCase(subject)
         IN  IF includesAny(lowerSubject, MediumWords) THEN "medium"
             ELSE IF includesAny(lowerSubject, HighWords) THEN "high"
             ELSE "low"

getPriority(subject) ==
    IF Falsy(subject) THEN "medium"
    ELSE LET lowerSubject == toLowerCase(subject)
         IN  IF includesAny(lowerSubject, HighWords) THEN "high"
             ELSE IF includesAny(lowerSubject, MediumWords) THEN "medium"
             ELSE "low"

getSentiment(body) ==
    IF Falsy(body) THEN "neutral"
    ELSE LET lowerBody == toLowerCase(body)
         IN  IF includesAny(lowerBody, NegativeWords) THEN "negative"
             ELSE IF includesAny(lowerBody, PositiveWords) THEN "positive"
             ELSE "neutral"

getCategory(subject, body) ==
    IF Falsy(subject) /\ Falsy(body) THEN "general"
    ELSE LET \* the string an operand of + becomes
             String(value) ==
                 IF value = Undefined
                 THEN <<"u", "n", "d", "e", "f", "i", "n", "e", "d">>
                 ELSE value
             lowerText == toLowerCase(String(subject) \o <<" ">> \o String(body))
         IN  IF includesAny(lowerText, AccountWords) THEN "account"
             ELSE IF includesAny(lowerText, BillingWords) THEN "billing"
             ELSE IF includesAny(lowerText, TechnicalWords) THEN "technical"
             ELSE IF includesAny(lowerText, FeatureWords) THEN "feature"
             ELSE "general"

\* email[field] || fallback for a label: undefined is falsy
LabelOr(email, field, fallback) ==
    IF field \in DOMAIN email /\ email[field] # Unset THEN email[field] ELSE fallback

\* the record response.emails.map makes of the email at position index
\* (counted from 0): an id of 0 is falsy as well
ProcessEmail(email, index) ==
    [f \in (DOMAIN email) \cup {"id", "priority", "sentiment", "status", "category"} |->
        CASE f = "id" -> IF "id" \in DOMAIN email /\ email.id # 0 THEN email.id ELSE index
          [] f = "priority" -> LabelOr(email, f, getPriority(Field(email, "subject")))
          [] f = "sentiment" -> LabelOr(email, f, getSentiment(Field(email, "body")))
          [] f = "status" -> LabelOr(email, f, "pending")
          [] f = "category" ->
                LabelOr(email, f, getCategory(Field(email, "subject"), Field(email, "body")))
          [] OTHER -> email[f]]

ProcessedEmails(list) == [i \in 1..Len(list) |-> ProcessEmail(list[i], i - 1)]

\* the labels and the identifiers of the twelve records of getSampleEmails;
\* their sender, subject, body and sent_date are left out
SampleLabels ==
    <<<<1, "high", "negative", "pending", "technical">>,
      <<2, "low", "positive", "resolved", "general">>,
      <<3, "medium", "negative", "in_progress", "technical">>,
      <<4, "medium", "neutral", "pending", "billing">>,
      <<5, "low", "positive", "closed", "feature">>,
      <<6, "medium", "neutral", "pending", "account">>,
      <<7, "high", "neutral", "pending", "technical">>,
      <<8, "low", "positive", "closed", "general">>,
      <<2, "medium", "neutral", "pending", "technical">>,
      <<3, "low", "negative", "pending", "account">>,
      <<4, "high", "neutral", "pending", "billing">>,
      <<5, "high", "negative", "pending", "technical">>>>

getSampleEmails ==
    [i \in 1..Len(SampleLabels) |->
        [id |-> SampleLabels[i][1], priority |-> SampleLabels[i][2],
         sentiment |-> SampleLabels[i][3], status |-> SampleLabels[i][4],
         category |-> SampleLabels[i][5]]]

----------------------------------------------------------------------------
(* extractContactInfo of ResponseEditor and of EmailCard: the matches of   *)
(* three regular expressions in the body, from left to right.              *)

\* [a-zA-Z], which is also what [A-Z] and [a-z] match under the i flag
LetterChars == {UpperCase[i] : i \in 1..26} \cup {LowerCase[i] : i \in 1..26}

\* \d
DigitChars == {"0", "1", "2", "3", "4", "5", "6", "7", "8", "9"}

\* [\d\s\-\(\)]
PhoneChars == DigitChars \cup {" ", "-", "(", ")"}

\* [a-zA-Z0-9._%+-]
LocalChars == LetterChars \cup DigitChars \cup {".", "_", "%", "+", "-"}

\* [a-zA-Z0-9.-]
DomainChars == LetterChars \cup DigitChars \cup {".", "-"}

\* (?:from|by|sent by|regards|sincerely|best regards|yours truly)
NameMarkers ==
    <<<<"f", "r", "o", "m">>, <<"b", "y">>, <<"s", "e", "n", "t", " ", "b", "y">>, <<"r", "e", "g", "a", "r", "d", "s">>, <<"s", "i", "n", "c", "e", "r", "e", "l", "y">>,
      <<"b", "e", "s", "t", " ", "r", "e", "g", "a", "r", "d", "s">>, <<"y", "o", "u", "r", "s", " ", "t", "r", "u", "l", "y">>>>

\* where the longest run of characters of class that begins at i ends
\* (i - 1 when text[i] is not of the class): a greedy class+ or class*
RECURSIVE RunEnd(_, _, _)
RunEnd(text, i, class) ==
    IF i <= Len(text) /\ text[i] \in class THEN RunEnd(text, i + 1, class) ELSE i - 1

\* /(\+?[\d\s\-\(\)]{10,})/ tried at i: where the match ends, 0 for none
PhoneEnd(text, i) ==
    LET s == IF text[i] = "+" THEN i + 1 ELSE i
        e == RunEnd(text, s, PhoneChars)
    IN  IF e - s + 1 >= 10 THEN e ELSE 0

\* /([a-zA-Z0-9._%+-]+@[a-zA-Z0-9.-]+\.[a-zA-Z]{2,})/ tried at i: the
\* domain gives characters back until a dot and two letters follow it
EmailEnd(text, i) ==
    LET l == RunEnd(text, i, LocalChars)
        d == RunEnd(text, l + 2, DomainChars)
        dots == {k \in (l + 2)..d :
                    /\ k + 1 <= Len(text)
                    /\ text[k + 1] = "."
                    /\ RunEnd(text, k + 2, LetterChars) >= k + 3}
    IN  IF l >= i /\ l + 1 <= Len(text) /\ text[l + 1] = "@" /\ dots # {}
        THEN RunEnd(text, (CHOOSE k \in dots : \A j \in dots : j <= k) + 2, LetterChars)
        ELSE 0

\* a marker and [:\s]+ tried at i, whatever the case of the letters: where
\* the separators end, 0 for none
MarkerEnd(text, i) ==
    LET SeparatorChars == {":", " "}
        fits == {m \in 1..Len(NameMarkers) :
                    /\ i + Len(NameMarkers[m]) - 1 <= Len(text)
                    /\ toLowerCase(SubSeq(text, i, i + Len(NameMarkers[m]) - 1))
                          = NameMarkers[m]
                    /\ RunEnd(text, i + Len(NameMarkers[m]), SeparatorChars)
                          >= i + Len(NameMarkers[m])}
    IN  IF fits = {} THEN 0
        ELSE LET m == CHOOSE k \in fits : \A j \in fits : k <= j
             IN  RunEnd(text, i + Len(NameMarkers[m]), SeparatorChars)

\* (?:\s+[A-Z][a-z]+)* after a word that ends at e
RECURSIVE WordsEnd(_, _)
WordsEnd(text, e) ==
    LET s == RunEnd(text, e + 1, {" "})
        w == RunEnd(text, s + 1, LetterChars)
    IN  IF s >= e + 1 /\ w >= s + 2 THEN WordsEnd(text, w) ELSE e

\* nameRegex tried at i
NameEnd(text, i) ==
    LET s == MarkerEnd(text, i)
        w == RunEnd(text, s + 1, LetterChars)
    IN  IF s > 0 /\ w >= s + 2 THEN WordsEnd(text, w) ELSE 0

\* body.match(regex) || [] for a regex with the g flag: the matches from
\* position i on, each search resuming where the last match ended
RECURSIVE match(_, _, _)
match(body, regex, i) ==
    LET end == CASE regex = "phoneRegex" -> PhoneEnd(body, i)
                 [] regex = "emailRegex" -> EmailEnd(body, i)
                 [] regex = "nameRegex" -> NameEnd(body, i)
    IN  IF i > Len(body) THEN << >>
        ELSE IF end > 0
             THEN <<SubSeq(body, i, end)>> \o match(body, regex, end + 1)
             ELSE match(body, regex, i + 1)

\* [...new Set(list)]: the first occurrence of each value, in order
NewSet(list) ==
    LET firsts == {i \in 1..Len(list) : \A j \in 1..(i - 1) : list[j] # list[i]}
        At(k) == CHOOSE i \in firsts : Cardinality({j \in firsts : j <= i}) = k
    IN  [k \in 1..Cardinality(firsts) |-> list[At(k)]]

\* name.replace(/^(?:from|by|...)[:\s]+/i, '')
StripMarker(name) ==
    IF MarkerEnd(name, 1) > 0 THEN SubSeq(name, MarkerEnd(name, 1) + 1, Len(name))
    ELSE name

\* extractContactInfo of ResponseEditor
extractContactInfo(body) ==
    [phones |-> NewSet(match(body, "phoneRegex", 1)),
     emails |-> NewSet(match(body, "emailRegex", 1)),
     names |-> LET names == NewSet(match(body, "nameRegex", 1))
               IN  [k \in 1..Len(names) |-> StripMarker(names[k])]]

\* extractContactInfo of EmailCard
extractContactInfoOfCard(body) ==
    [phones |-> NewSet(match(body, "phoneRegex", 1)),
     emails |-> NewSet(match(body, "emailRegex", 1))]

\* email.body || ''
BodyOf(email) == IF Falsy(Field(email, "body")) THEN << >> ELSE email.body

----------------------------------------------------------------------------
(* Statistics: the stats memo of useEmails and the quick stats of Sidebar  *)

\* list.filter(email => email[field] === value).length
CountOf(list, field, value) ==
    Cardinality({i \in 1..Len(list) : field \in DOMAIN list[i] /\ list[i][field] = value})

\* the memo with a rate that is a fraction of one
Stats_PerOne(list) ==
    [total |-> Len(list),
     urgent |-> CountOf(list, "priority", "urgent"),
     pending |-> CountOf(list, "status", "pending"),
     resolved |-> CountOf(list, "status", "resolved"),
     sentiment |-> [positive |-> CountOf(list, "sentiment", "positive"),
                    negative |-> CountOf(list, "sentiment", "negative"),
                    neutral |-> CountOf(list, "sentiment", "neutral")],
     resolutionRate |-> IF Len(list) > 0
                        THEN [num |-> CountOf(list, "status", "resolved"),
                              den |-> Len(list)]
                        ELSE [num |-> 0, den |-> 1]]

\* the memo for the snapshot list.  resolutionRate is the fraction num/den:
\* (resolved / total) * 100 when total > 0, and 0
Stats(list) ==
    [total |-> Len(list),
     urgent |-> CountOf(list, "priority", "urgent"),
     pending |-> CountOf(list, "status", "pending"),
     resolved |-> CountOf(list, "status", "resolved"),
     sentiment |-> [positive |-> CountOf(list, "sentiment", "positive"),
                    negative |-> CountOf(list, "sentiment", "negative"),
                    neutral |-> CountOf(list, "sentiment", "neutral")],
     resolutionRate |-> IF Len(list) > 0
                        THEN [num |-> CountOf(list, "status", "resolved") * 100,
                              den |-> Len(list)]
                        ELSE [num |-> 0, den |-> 1]]

stats == Stats(emails)

\* counts that take 'high' for urgent
SidebarCounts_CountsHigh(list) ==
    [totalCount |-> Len(list),
     urgentCount |-> CountOf(list, "priority", "high"),
     quickStats |->
        [Pending |-> Cardinality({i \in 1..Len(list) :
                                     LabelOr(list[i], "status", "pending") = "pending"}),
         InProgress |-> CountOf(list, "status", "in_progress"),
         Resolved |-> CountOf(list, "status", "resolved")]]

\* what load of Sidebar sets for the response res: a record without a
\* status counts as pending
SidebarCounts(list) ==
    [totalCount |-> Len(list),
     urgentCount |-> CountOf(list, "priority", "urgent"),
     quickStats |->
        [Pending |-> Cardinality({i \in 1..Len(list) :
                                     LabelOr(list[i], "status", "pending") = "pending"}),
         InProgress |-> CountOf(list, "status", "in_progress"),
         Resolved |-> CountOf(list, "status", "resolved")]]

\* the useState calls of Sidebar
SidebarDefaults ==
    [totalCount |-> 0, urgentCount |-> 0,
     quickStats |-> [Pending |-> 0, InProgress |-> 0, Resolved |-> 0]]

\* ResponseEditor before an email is handed to it: useState({})
NoEditor == [email |-> << >>, extractedInfo |-> << >>]

\* EmailCard before it is rendered
NoCard == [email |-> << >>, contactInfo |-> << >>]

----------------------------------------------------------------------------
\* the effect that keeps selectAll in step with the selection
SelectAllEffect(sel, filtered, cur) ==
    IF Len(sel) = 0 THEN FALSE
    ELSE IF Len(sel) = Len(filtered) THEN TRUE
    ELSE cur

----------------------------------------------------------------------------
(* Pieces of the handlers *)

\* a falsy lastFetch is null (NullTime) or 0
Truthy(t) == t # NullTime /\ t # 0

\* the cache check with the threshold itself counted as fresh
CacheFresh_Inclusive(forceRefresh, lf, now) ==
    ~forceRefresh /\ Truthy(lf) /\ (now - lf) <= CACHE_DURATION

\* the cache check of loadEmails: the call returns without fetching
CacheFresh(forceRefresh, lf, now) ==
    ~forceRefresh /\ Truthy(lf) /\ (now - lf) < CACHE_DURATION

\* an empty answer replaced by a stand-in record
EmailListOf_Fallback(response) ==
    IF "emails" \in DOMAIN response /\ response.emails # << >>
    THEN response.emails ELSE <<RecA>>

\* response.emails || []
EmailListOf(response) ==
    IF "emails" \in DOMAIN response THEN response.emails ELSE << >>

\* the patch merged into every record
PatchEmails_All(list, emailId, updates) ==
    [i \in 1..Len(list) |-> Merge(list[i], updates)]

\* prev.map(email => email.id === emailId ? { ...email, ...updates } : email)
PatchEmails(list, emailId, updates) ==
    [i \in 1..Len(list) |->
        IF list[i].id = emailId THEN Merge(list[i], updates) ELSE list[i]]

\* the cache entry of emailId is patched when there is one
PatchCache(cache, emailId, updates) ==
    [i \in DOMAIN cache |->
        IF i = emailId THEN Merge(cache[i], updates) ELSE cache[i]]

\* the filter with its test inverted
RemoveEmail_Inverted(list, emailId) == SelectSeq(list, LAMBDA e : e.id = emailId)

\* prev.filter(email => email.id !== emailId)
RemoveEmail(list, emailId) == SelectSeq(list, LAMBDA e : e.id # emailId)

\* newCache.delete(emailId)
RemoveCache(cache, emailId) == [i \in (DOMAIN cache) \ {emailId} |-> cache[i]]

\* a catch branch that clears the snapshot
EmailsAfterLoadError_Cleared(list) == << >>

\* the snapshot the catch branch of loadEmails leaves behind
EmailsAfterLoadError(list) == list

NoOp ==
    [kind |-> "none", id |-> 0, patch |-> [status |-> Unset], ids |-> << >>,
     status |-> Unset, phase |-> "idle", at |-> 0, sent |-> {}]

NoResult == [call |-> "none", outcome |-> "none", reload |-> "none"]

\* the promise of a call settles: what its caller sees, and whether the call
\* went through a reload
ResultOf(o, outcome, reload) ==
    [call |-> o.kind, outcome |-> outcome, reload |-> reload]

LoadCall == [NoOp EXCEPT !.kind = "loadEmails"]

\* requests are told apart by a number that no pending request carries
FreeRid ==
    CHOOSE n \in 1..(Cardinality(inflight) + 1) :
        /\ \A r \in inflight : r.rid # n
        /\ \A m \in 1..(n - 1) : \E r \in inflight : r.rid = m

NewRequest(owner) ==
    [rid |-> FreeRid, owner |-> owner, now |-> clock,
     served |-> FALSE, response |-> [emails |-> << >>]]

\* emailAPI.getEmails() leaves: the request is on the wire
SendGetEmails(owner) == inflight' = inflight \cup {NewRequest(owner)}

\* one more call through the interface the hook returns
Called ==
    /\ calls < MaxCalls
    /\ calls' = calls + 1

\* the effects that run after a commit which replaced the emails array:
\* applyFiltersAndSorting, and the select-all effect once for the render
\* that still shows rendered (the old filtered list) and once for the new one
CommitEmails(list, rendered, sel, sa) ==
    /\ emails' = list
    /\ filteredEmails' \in applyFiltersAndSorting(list, filters, sortBy, sortOrder, clock)
    /\ totalEmails' = Len(filteredEmails')
    /\ currentPage' = 1
    /\ selectedEmails' = sel
    /\ selectAll' = SelectAllEffect(sel, filteredEmails',
                                    SelectAllEffect(sel, rendered, sa))

\* the effects that run after a commit which left the emails array alone
CommitSelection(sel, sa) ==
    /\ UNCHANGED <<emails, filteredEmails, totalEmails, currentPage>>
    /\ selectedEmails' = sel
    /\ selectAll' = SelectAllEffect(sel, filteredEmails, sa)

----------------------------------------------------------------------------
(* The EmailManagement component as its useState calls construct it *)

Unmounted ==
    [emails |-> << >>, filteredEmails |-> << >>, searchQuery |-> << >>,
     selectedFilters |-> [priority |-> "all", sentiment |-> "all", status |-> "all",
                          category |-> "all", date |-> "all"],
     sortBy |-> "sent_date", sortOrder |-> "desc"]

----------------------------------------------------------------------------
(* State after construction and the mount effects: loadEmails() has sent   *)
(* its first request, applyFiltersAndSorting has run on the empty array.   *)

Init ==
    /\ emails = << >>
    /\ filteredEmails = << >>
    /\ loading = TRUE
    /\ error = Null
    /\ refreshing = FALSE
    /\ filters = [search |-> << >>, priority |-> "all", sentiment |-> "all",
                  status |-> "all", category |-> "all", dateRange |-> "all"]
    /\ sortBy = "received_at"
    /\ sortOrder = "desc"
    /\ currentPage = 1
    /\ pageSize = DefaultPageSize
    /\ totalEmails = 0
    /\ selectedEmails = << >>
    /\ selectAll = FALSE
    /\ emailCache = << >>
    /\ lastFetch = NullTime
    /\ remote \in RemoteInits
    /\ clock = StartTime
    /\ inflight = {[rid |-> 1, owner |-> "loadEmails", now |-> StartTime,
                    served |-> FALSE, response |-> [emails |-> << >>]]}
    /\ calls = 0
    /\ op = NoOp
    /\ result = NoResult
    /\ ticks = 0
    /\ remoteFailed = FALSE
    /\ management = Unmounted
    /\ pending = {}
    /\ editor = NoEditor
    /\ card = NoCard
    /\ sidebar = SidebarDefaults

----------------------------------------------------------------------------
(* Time *)

TickSteps == {1, CACHE_DURATION - 1}

\* Date.now() advances.  A request is settled by axios within API_TIMEOUT,
\* so the clock never runs further than that past a pending request.
Tick(d) ==
    /\ ticks < MaxTicks
    /\ \A r \in inflight : clock + d - r.now <= API_TIMEOUT \div 1000
    /\ op.phase = "remote" => clock + d - op.at <= API_TIMEOUT \div 1000
    /\ clock' = clock + d
    /\ ticks' = ticks + 1
    /\ UNCHANGED <<hookVars, remote, inflight, op, result, calls, remoteFailed>>
    /\ UNCHANGED viewVars

----------------------------------------------------------------------------
(* loadEmails(forceRefresh), called through the hook interface *)

LoadEmails(forceRefresh) ==
    /\ Called
    /\ error' = Null
    /\ IF CacheFresh(forceRefresh, lastFetch, clock)
       THEN /\ loading' = FALSE
            /\ result' = ResultOf(LoadCall, "resolved", "none")
            /\ UNCHANGED inflight
       ELSE /\ loading' = TRUE
            /\ SendGetEmails("loadEmails")
            /\ UNCHANGED result
    /\ CommitSelection(selectedEmails, selectAll)
    /\ UNCHANGED <<refreshing, filters, sortBy, sortOrder, pageSize, emailCache,
                   lastFetch, remote, op, clock, ticks, remoteFailed>>
    /\ UNCHANGED viewVars

\* the server reads its collection and answers the request
ServeGetEmails(r) ==
    /\ r \in inflight
    /\ ~r.served
    /\ inflight' = (inflight \ {r}) \cup
                      {[r EXCEPT !.served = TRUE, !.response = [emails |-> remote]]}
    /\ UNCHANGED <<hookVars, remote, op, result, clock, calls, ticks, remoteFailed>>
    /\ UNCHANGED viewVars

\* what follows the settlement of the load r: the promise of a plain
\* loadEmails call resolves; a reload started by refreshEmails for a mutation
\* resumes refreshEmails (setRefreshing(false)) and then the mutation, which
\* re-throws (updateEmail, deleteEmail) or returns
Resume(r, reload) ==
    IF r.owner = "loadEmails"
    THEN /\ result' = ResultOf(LoadCall, "resolved", reload)
         /\ UNCHANGED <<op, refreshing>>
    ELSE /\ refreshing' = FALSE
         /\ op' = NoOp
         /\ result' = ResultOf(op,
                IF op.kind \in {"updateEmail", "deleteEmail"}
                THEN "rejected" ELSE "resolved", reload)

\* the response of getEmails arrives: the rest of the try block, the finally
\* block, then the effects; the load effect runs again when lastFetch changed
GetEmailsOk(r) ==
    /\ r \in inflight
    /\ r.served
    /\ lastFetch' = r.now
    /\ emailCache' = CacheOf(EmailListOf(r.response))
    /\ CommitEmails(EmailListOf(r.response), filteredEmails, selectedEmails, selectAll)
    /\ Resume(r, "ok")
    /\ IF lastFetch' # lastFetch
       THEN /\ error' = Null
            /\ IF CacheFresh(FALSE, lastFetch', clock)
               THEN /\ loading' = FALSE
                    /\ inflight' = inflight \ {r}
               ELSE /\ loading' = TRUE
                    /\ inflight' = (inflight \ {r}) \cup {NewRequest("loadEmails")}
       ELSE /\ loading' = FALSE
            /\ inflight' = inflight \ {r}
            /\ UNCHANGED error
    /\ UNCHANGED <<filters, sortBy, sortOrder, pageSize, remote, clock, calls, ticks,
                   remoteFailed>>
    /\ UNCHANGED viewVars

\* getEmails rejects: the catch block and the finally block
GetEmailsFail(r) ==
    /\ r \in inflight
    /\ inflight' = inflight \ {r}
    /\ error' = LoadError
    /\ loading' = FALSE
    /\ emails' = EmailsAfterLoadError(emails)
    /\ remoteFailed' = TRUE
    /\ Resume(r, "failed")
    /\ UNCHANGED <<filteredEmails, totalEmails, currentPage, selectedEmails,
                   selectAll, filters, sortBy, sortOrder, pageSize, emailCache,
                   lastFetch, remote, clock, calls, ticks>>
    /\ UNCHANGED viewVars

----------------------------------------------------------------------------
(* refreshEmails, and the start of the reload it performs for a mutation *)

\* a refresh that calls loadEmails without forcing it
StartRefresh_Unforced ==
    /\ refreshing' = TRUE
    /\ error' = Null
    /\ IF CacheFresh(FALSE, lastFetch, clock)
       THEN loading' = FALSE /\ UNCHANGED inflight
       ELSE loading' = TRUE /\ SendGetEmails("refreshEmails")

\* setRefreshing(true); loadEmails(true) up to its await
StartRefresh ==
    /\ refreshing' = TRUE
    /\ error' = Null
    /\ loading' = TRUE
    /\ SendGetEmails("refreshEmails")

RefreshEmails ==
    /\ Called
    /\ op = NoOp
    /\ StartRefresh
    /\ op' = [NoOp EXCEPT !.kind = "refreshEmails", !.phase = "reload", !.at = clock]
    /\ CommitSelection(selectedEmails, selectAll)
    /\ UNCHANGED <<filters, sortBy, sortOrder, pageSize, emailCache, lastFetch,
                   remote, result, clock, ticks, remoteFailed>>
    /\ UNCHANGED viewVars

----------------------------------------------------------------------------
(* updateEmail(emailId, updates) *)

\* the optimistic patch, then emailAPI.updateEmail leaves
UpdateEmail(emailId, updates) ==
    /\ Called
    /\ op = NoOp
    /\ emailCache' = PatchCache(emailCache, emailId, updates)
    /\ CommitEmails(PatchEmails(emails, emailId, updates), filteredEmails,
                    selectedEmails, selectAll)
    /\ op' = [NoOp EXCEPT !.kind = "updateEmail", !.id = emailId, !.patch = updates,
                          !.phase = "remote", !.at = clock,
                          !.sent = {[id |-> emailId, patch |-> updates]}]
    /\ UNCHANGED <<loading, error, refreshing, filters, sortBy, sortOrder, pageSize,
                   lastFetch, remote, inflight, result, clock, ticks, remoteFailed>>
    /\ UNCHANGED viewVars

\* what PUT /emails/{id} does to the collection behind the API
ServerUpdate(collection, emailId, updateData) ==
    [i \in 1..Len(collection) |->
        IF collection[i].id = emailId
        THEN Merge(collection[i], updateData) ELSE collection[i]]

\* PUT /emails/{id} succeeds: the server has applied the patch
UpdateEmailOk ==
    /\ op.kind = "updateEmail"
    /\ op.phase = "remote"
    /\ op.id \in IdsOf(remote)
    /\ remote' = ServerUpdate(remote, op.id, op.patch)
    /\ op' = NoOp
    /\ result' = ResultOf(op, "resolved", "none")
    /\ UNCHANGED <<hookVars, inflight, clock, calls, ticks, remoteFailed>>
    /\ UNCHANGED viewVars

\* PUT /emails/{id} is rejected: the catch block calls refreshEmails
UpdateEmailFail ==
    /\ op.kind = "updateEmail"
    /\ op.phase = "remote"
    /\ remoteFailed' = TRUE
    /\ StartRefresh
    /\ op' = [op EXCEPT !.phase = "reload", !.at = clock]
    /\ CommitSelection(selectedEmails, selectAll)
    /\ UNCHANGED <<filters, sortBy, sortOrder, pageSize, emailCache, lastFetch,
                   remote, result, clock, calls, ticks>>
    /\ UNCHANGED viewVars

----------------------------------------------------------------------------
(* deleteEmail(emailId) *)

\* the methods of the emailAPI object
EmailAPIMethods ==
    {"getEmails", "getEmail", "getUrgentEmails", "getTodayEmails",
     "getPriorityQueue", "sendResponse", "updateResponse", "updateEmail",
     "bulkUpdateEmails", "refreshEmails"}

\* the optimistic removal; emailAPI.deleteEmail is not a function, so the
\* call throws in the same segment and the catch block calls refreshEmails
DeleteEmail(emailId) ==
    /\ Called
    /\ op = NoOp
    /\ "deleteEmail" \notin EmailAPIMethods
    /\ emailCache' = RemoveCache(emailCache, emailId)
    /\ CommitEmails(RemoveEmail(emails, emailId), RemoveEmail(filteredEmails, emailId),
                    selectedEmails, selectAll)
    /\ remoteFailed' = TRUE
    /\ StartRefresh
    /\ op' = [NoOp EXCEPT !.kind = "deleteEmail", !.id = emailId,
                          !.phase = "reload", !.at = clock]
    /\ UNCHANGED <<filters, sortBy, sortOrder, pageSize, lastFetch, remote, result,
                   clock, ticks>>
    /\ UNCHANGED viewVars

----------------------------------------------------------------------------
(* bulkUpdateStatus(status) and bulkDelete() *)

\* both bodies: return on an empty selection; otherwise setLoading(true), the
\* console.log, the selection is cleared and refreshEmails is awaited.  No
\* request other than the reload is sent.
BulkOperation(kind, status) ==
    /\ Called
    /\ op = NoOp
    /\ IF Len(selectedEmails) = 0
       THEN /\ result' = ResultOf([NoOp EXCEPT !.kind = kind, !.status = status],
                                  "resolved", "none")
            /\ UNCHANGED <<hookVars, inflight, op>>
       ELSE /\ StartRefresh
            /\ op' = [NoOp EXCEPT !.kind = kind, !.ids = selectedEmails,
                                  !.status = status, !.phase = "reload", !.at = clock]
            /\ CommitSelection(<< >>, FALSE)
            /\ UNCHANGED <<filters, sortBy, sortOrder, pageSize, emailCache,
                           lastFetch, result>>
    /\ UNCHANGED <<remote, clock, ticks, remoteFailed>>
    /\ UNCHANGED viewVars

BulkUpdateStatus(status) == BulkOperation("bulkUpdateStatus", status)

BulkDelete == BulkOperation("bulkDelete", Unset)

----------------------------------------------------------------------------
(* Selection *)

ToggleEmailSelection(emailId) ==
    /\ Called
    /\ CommitSelection(
          IF Includes(selectedEmails, emailId)
          THEN SelectSeq(selectedEmails, LAMBDA i : i # emailId)
          ELSE Append(selectedEmails, emailId),
          selectAll)
    /\ UNCHANGED <<loading, error, refreshing, filters, sortBy, sortOrder, pageSize,
                   emailCache, lastFetch, remote, inflight, op, result, clock, ticks,
                   remoteFailed>>
    /\ UNCHANGED viewVars

SelectAllEmails(checked) ==
    /\ Called
    /\ IF checked
       THEN CommitSelection(MapIds(filteredEmails), TRUE)
       ELSE CommitSelection(<< >>, FALSE)
    /\ UNCHANGED <<loading, error, refreshing, filters, sortBy, sortOrder, pageSize,
                   emailCache, lastFetch, remote, inflight, op, result, clock, ticks,
                   remoteFailed>>
    /\ UNCHANGED viewVars

----------------------------------------------------------------------------
(* Filters, sorting and pagination *)

FilterChanges == {[priority |-> "high"], [search |-> <<"h">>]}

SortFields == {"received_at", "sender"}

Pages == {0, 2, 3}

PageSizes == {1, DefaultPageSize}

\* the effect without its setCurrentPage(1)
CommitQuery_KeepsPage(flt, key, order) ==
    /\ filters' = flt
    /\ sortBy' = key
    /\ sortOrder' = order
    /\ filteredEmails' \in applyFiltersAndSorting(emails, flt, key, order, clock)
    /\ totalEmails' = Len(filteredEmails')
    /\ selectAll' = SelectAllEffect(selectedEmails, filteredEmails', selectAll)
    /\ UNCHANGED <<emails, selectedEmails, currentPage>>

\* the effects that run after a commit which replaced filters, sortBy or
\* sortOrder: applyFiltersAndSorting, then the select-all effect for the new
\* filtered list
CommitQuery(flt, key, order) ==
    /\ filters' = flt
    /\ sortBy' = key
    /\ sortOrder' = order
    /\ filteredEmails' \in applyFiltersAndSorting(emails, flt, key, order, clock)
    /\ totalEmails' = Len(filteredEmails')
    /\ currentPage' = 1
    /\ selectAll' = SelectAllEffect(selectedEmails, filteredEmails', selectAll)
    /\ UNCHANGED <<emails, selectedEmails>>

\* setFilters(prev => ({ ...prev, ...newFilters }))
UpdateFilters(newFilters) ==
    /\ CommitQuery(Merge(filters, newFilters), sortBy, sortOrder)
    /\ UNCHANGED <<loading, error, refreshing, pageSize, emailCache, lastFetch,
                   remote, inflight, op, result, clock, ticks, remoteFailed>>
    /\ UNCHANGED viewVars

UpdateSorting(field) ==
    /\ IF sortBy = field
       THEN CommitQuery(filters, sortBy, IF sortOrder = "asc" THEN "desc" ELSE "asc")
       ELSE CommitQuery(filters, field, "desc")
    /\ UNCHANGED <<loading, error, refreshing, pageSize, emailCache, lastFetch,
                   remote, inflight, op, result, clock, ticks, remoteFailed>>
    /\ UNCHANGED viewVars

Max(a, b) == IF a >= b THEN a ELSE b

Min(a, b) == IF a <= b THEN a ELSE b

\* Math.ceil(totalEmails / pageSize)
totalPages == (totalEmails + pageSize - 1) \div pageSize

\* filteredEmails.slice(startIndex, endIndex)
paginatedEmails ==
    LET startIndex == (currentPage - 1) * pageSize
        endIndex == startIndex + pageSize
    IN  SubSeq(filteredEmails, startIndex + 1, Min(endIndex, Len(filteredEmails)))

GoToPage(page) ==
    /\ currentPage' = Max(1, Min(page, totalPages))
    /\ UNCHANGED <<emails, filteredEmails, loading, error, refreshing, filters,
                   sortBy, sortOrder, pageSize, totalEmails, selectedEmails,
                   selectAll, emailCache, lastFetch>>
    /\ UNCHANGED <<remote, inflight, op, result, clock, ticks, remoteFailed>>
    /\ UNCHANGED viewVars

SetPageSize(size) ==
    /\ pageSize' = size
    /\ UNCHANGED <<emails, filteredEmails, loading, error, refreshing, filters,
                   sortBy, sortOrder, currentPage, totalEmails, selectedEmails,
                   selectAll, emailCache, lastFetch>>
    /\ UNCHANGED <<remote, inflight, op, result, clock, ticks, remoteFailed>>
    /\ UNCHANGED viewVars

----------------------------------------------------------------------------

Next ==
    \/ \E d \in TickSteps : Tick(d)
    \/ \E f \in BOOLEAN : LoadEmails(f)
    \/ \E r \in inflight : ServeGetEmails(r)
    \/ \E r \in inflight : GetEmailsOk(r)
    \/ \E r \in inflight : GetEmailsFail(r)
    \/ RefreshEmails
    \/ \E i \in IdsOf(emails), u \in Patches : UpdateEmail(i, u)
    \/ UpdateEmailOk
    \/ UpdateEmailFail
    \/ \E i \in IdsOf(emails) : DeleteEmail(i)
    \/ \E s \in BulkStatuses : BulkUpdateStatus(s)
    \/ BulkDelete
    \/ \E i \in IdsOf(filteredEmails) : ToggleEmailSelection(i)
    \/ \E c \in BOOLEAN : SelectAllEmails(c)
    \/ \E f \in FilterChanges : Called /\ UpdateFilters(f)
    \/ \E f \in SortFields : Called /\ UpdateSorting(f)
    \/ \E p \in Pages : Called /\ GoToPage(p)
    \/ \E n \in PageSizes : Called /\ SetPageSize(n)

Spec == Init /\ [][Next]_vars

----------------------------------------------------------------------------
(* The hook under the calls that change the view only: the mount load      *)
(* settles, and filters, sorting, page and page size are set.              *)

Viewed ==
    /\ calls < MaxViews
    /\ calls' = calls + 1

ViewNext ==
    \/ \E d \in TickSteps : Tick(d)
    \/ \E r \in inflight : ServeGetEmails(r)
    \/ \E r \in inflight : GetEmailsOk(r)
    \/ \E r \in inflight : GetEmailsFail(r)
    \/ \E f \in FilterChanges : Viewed /\ UpdateFilters(f)
    \/ \E f \in SortFields : Viewed /\ UpdateSorting(f)
    \/ \E p \in Pages : Viewed /\ GoToPage(p)
    \/ \E n \in PageSizes : Viewed /\ SetPageSize(n)

ViewSpec == Init /\ [][ViewNext]_vars

----------------------------------------------------------------------------
(* The two query functions on their own: a commit has replaced the         *)
(* snapshot, the filters and the sorting, and the effect of each component *)
(* (applyFiltersAndSorting, filterAndSortEmails) has still to run.         *)

\* the instant of the query: 15 March of year 1, 10:00:00
QueryDay == NewDate(1, 2, 15)

QueryNow == QueryDay + 10 * 60 * 60

Shape(t, sender, subject, body, priority, sentiment, status, category) ==
    [sender |-> sender, subject |-> subject, body |-> body,
     received_at |-> t, sent_date |-> t, priority |-> priority,
     sentiment |-> sentiment, status |-> status, category |-> category]

Without(shape, field) == [f \in (DOMAIN shape) \ {field} |-> shape[f]]

\* one second after the midnight that begins the day of the query
AfterMidnight ==
    Shape(QueryDay + 1, <<"a", "@", "x">>, <<"U", "r", "g">>, <<"h", "i">>,
          "high", "negative", "pending", "technical")

\* one second before that midnight; no subject
BeforeMidnight ==
    Without(Shape(QueryDay - 1, <<"A", "@", "x">>, << >>, <<"o", "k">>,
                  "low", "positive", "resolved", "general"), "subject")

\* seven days and one hour before the query; no body
WeekAndHour ==
    Without(Shape(QueryNow - 7 * DAY_MS - 60 * 60, <<"a", "@", "x">>,
                  <<"h", "e", "l", "p">>, << >>,
                  "medium", "neutral", "pending", "billing"), "body")

\* noon of the last day of the month before
LastDayNoon ==
    Shape(NewDate(1, 1, 28) + 12 * 60 * 60, <<"b", "@", "x">>, <<"U", "r", "g">>,
          <<"h", "i">>, "high", "negative", "pending", "technical")

\* thirty days and five hours before the query; no sender, no labels
MonthAndHours ==
    Without(Shape(QueryNow - 30 * DAY_MS - 5 * 60 * 60, << >>,
                  <<"h", "e", "l", "p">>, <<"o", "k">>,
                  Unset, Unset, Unset, Unset), "sender")

\* the same instant as AfterMidnight, another sender
SameInstant ==
    Shape(QueryDay + 1, <<"b", "@", "x">>, <<"h", "e", "l", "p">>, <<"o", "k">>,
          "low", "neutral", "resolved", "general")

\* the last second of the month before the month before
TwoMonthsBack ==
    Shape(NewDate(1, 1, 1) - 1, <<"a", "@", "x">>, <<"h", "e", "l", "p">>,
          <<"h", "i">>, "high", "positive", "pending", "general")

\* the day after the query
Tomorrow ==
    Shape(QueryDay + DAY_MS + 9 * 60 * 60, <<"b", "@", "x">>, <<"U", "r", "g">>,
          <<"o", "k">>, "medium", "negative", "pending", "technical")

Shapes ==
    {AfterMidnight, BeforeMidnight, WeekAndHour, LastDayNoon, MonthAndHours,
     SameInstant, TwoMonthsBack, Tomorrow}

\* the record of position i carries the identifier i
WithId(shape, i) ==
    [f \in (DOMAIN shape) \cup {"id"} |-> IF f = "id" THEN i ELSE shape[f]]

Snapshots ==
    UNION {{[i \in 1..n |-> WithId(q[i], i)] : q \in [1..n -> Shapes]} :
              n \in 0..MaxSnapshot}

DefaultFilters ==
    [search |-> << >>, priority |-> "all", sentiment |-> "all",
     status |-> "all", category |-> "all", dateRange |-> "all"]

DateBuckets ==
    {"all", "today", "yesterday", "last7days", "last30days", "thisMonth",
     "lastMonth", "week", "month"}

\* the filters a query is made with: at most two of them are set
QueryFilters ==
    {f \in [search : {<< >>, <<"H">>}, priority : {"all", "high", "bogus"},
            sentiment : {"all", "negative"}, status : {"all", "bogus"},
            category : {"all", "technical"}, dateRange : DateBuckets] :
        Cardinality({k \in DOMAIN f : f[k] # DefaultFilters[k]}) <= 2}

SortOrders == {"asc", "desc"}

\* EmailManagement given the query of the hook: its date field is sent_date
ManagementOf(list, flt, key, order) ==
    [emails |-> list, filteredEmails |-> << >>, searchQuery |-> flt.search,
     selectedFilters |-> [priority |-> flt.priority, sentiment |-> flt.sentiment,
                          status |-> flt.status, category |-> flt.category,
                          date |-> flt.dateRange],
     sortBy |-> IF key = "received_at" THEN "sent_date" ELSE key,
     sortOrder |-> order]

QueryInit ==
    /\ emails \in Snapshots
    /\ filters \in QueryFilters
    /\ sortBy \in SortFields
    /\ sortOrder \in SortOrders
    /\ clock = QueryNow
    /\ management = ManagementOf(emails, filters, sortBy, sortOrder)
    /\ pending = {"applyFiltersAndSorting", "filterAndSortEmails"}
    /\ editor = NoEditor
    /\ card = NoCard
    /\ sidebar = SidebarDefaults
    /\ filteredEmails = << >>
    /\ totalEmails = Len(emails)
    /\ currentPage = 1
    /\ pageSize = DefaultPageSize
    /\ loading = FALSE
    /\ error = Null
    /\ refreshing = FALSE
    /\ selectedEmails = << >>
    /\ selectAll = FALSE
    /\ emailCache = CacheOf(emails)
    /\ lastFetch = QueryNow
    /\ remote = emails
    /\ inflight = {}
    /\ op = NoOp
    /\ result = NoResult
    /\ calls = 0
    /\ ticks = 0
    /\ remoteFailed = FALSE

\* the effect of useEmails
ApplyFiltersAndSorting ==
    /\ "applyFiltersAndSorting" \in pending
    /\ pending' = pending \ {"applyFiltersAndSorting"}
    /\ filteredEmails' \in applyFiltersAndSorting(emails, filters, sortBy, sortOrder, clock)
    /\ totalEmails' = Len(filteredEmails')
    /\ currentPage' = 1
    /\ selectAll' = SelectAllEffect(selectedEmails, filteredEmails', selectAll)
    /\ UNCHANGED <<emails, loading, error, refreshing, filters, sortBy, sortOrder,
                   pageSize, selectedEmails, emailCache, lastFetch, management>>
    /\ UNCHANGED <<envVars, panelVars>>

\* the effect of EmailManagement
FilterAndSortEmails ==
    /\ "filterAndSortEmails" \in pending
    /\ pending' = pending \ {"filterAndSortEmails"}
    /\ \E filtered \in filterAndSortEmails(management.emails, management.searchQuery,
                                           management.selectedFilters,
                                           management.sortBy, management.sortOrder,
                                           clock) :
          management' = [management EXCEPT !.filteredEmails = filtered]
    /\ UNCHANGED hookVars
    /\ UNCHANGED <<envVars, panelVars>>

QueryNext == ApplyFiltersAndSorting \/ FilterAndSortEmails

QuerySpec == QueryInit /\ [][QueryNext]_vars

----------------------------------------------------------------------------
(* Text analysis on its own: the remote boundary holds raw records, the    *)
(* mount effects of EmailManagement and of Sidebar have still to run, and  *)
(* ResponseEditor and EmailCard are handed records of the response.        *)

\* the subjects and bodies the classifiers are given
Subjects ==
    {Undefined, << >>, <<"U", "R", "G", "E", "N", "T", " ", "h", "e", "l", "p">>,
     <<"h", "e", "l", "p">>, <<"b", "i", "l", "l", "i", "n", "g", " ", "b", "u", "g">>}

Bodies ==
    {Undefined, << >>,
     <<"r", "e", "f", "u", "n", "d", " ", "i", "s", "s", "u", "e", ",", " ", "t", "h", "a", "n", "k", " ", "y", "o", "u">>,
     <<"G", "r", "e", "a", "t">>, <<"n", "e", "w", " ", "f", "e", "a", "t", "u", "r", "e">>,
     <<"p", "a", "s", "s", "w", "o", "r", "d", " ", "r", "e", "f", "u", "n", "d", " ", "b", "u", "g">>}

\* the bodies the contact information is extracted from
ContactBodies ==
    {<<"f", "r", "o", "m", " ", "A", "n", "n", ".", " ", "f", "r", "o", "m", " ", "A", "n", "n">>,
     <<"f", "r", "o", "m", " ", "A", "n", "n", ".", " ", "b", "y", " ", "A", "n", "n">>,
     <<"F", "r", "o", "m", ":", " ", "A", "l", " ", "L", "e", "e", " ", "b", "y", " ", "B">>,
     <<"a", "@", "x", ".", "i", "o", ",", " ", "a", "@", "x", ".", "i", "o">>,
     <<"a", ".", "b", "@", "x", ".", "c", "o", ".", "u", "k", " ", "b", "@", "x">>,
     <<"5", "5", "5", "-", "1", "2", "3", "-", "4", "5", "6", "7", " ", "o", "r", " ", "5", "5", "5", "-", "1", "2", "3", "-", "4", "5", "6", "7">>,
     <<"+", "1", " ", "(", "5", "5", "5", ")", " ", "1", "2", "3", "-", "4", "5", "6", "7">>}

\* a record of the response with the fields the source sent
RawEmail(subject, body) ==
    [f \in {"sender"} \cup (IF subject = Undefined THEN {} ELSE {"subject"})
                      \cup (IF body = Undefined THEN {} ELSE {"body"}) |->
        CASE f = "sender" -> <<"a", "@", "x">>
          [] f = "subject" -> subject
          [] f = "body" -> body]

\* the records of a response; the last one the source has labelled itself
RawEmails ==
    {RawEmail(s, b) : s \in Subjects, b \in Bodies}
        \cup {RawEmail(<<"h", "e", "l", "p">>, b) : b \in ContactBodies}
        \cup {[id |-> 7, sender |-> <<"a", "@", "x">>, subject |-> <<"h", "e", "l", "p">>,
               body |-> <<"o", "k">>, priority |-> "urgent", sentiment |-> "positive",
               status |-> "resolved", category |-> "billing"]}

Responses == UNION {[1..n -> RawEmails] : n \in 0..MaxBatch}

TextInit ==
    /\ remote \in Responses
    /\ management = Unmounted
    /\ pending = {"loadEmails", "load"}
    /\ editor = NoEditor
    /\ card = NoCard
    /\ sidebar = SidebarDefaults
    /\ emails = << >>
    /\ filteredEmails = << >>
    /\ filters = DefaultFilters
    /\ sortBy = "received_at"
    /\ sortOrder = "desc"
    /\ clock = StartTime
    /\ totalEmails = 0
    /\ currentPage = 1
    /\ pageSize = DefaultPageSize
    /\ loading = TRUE
    /\ error = Null
    /\ refreshing = FALSE
    /\ selectedEmails = << >>
    /\ selectAll = FALSE
    /\ emailCache = << >>
    /\ lastFetch = NullTime
    /\ inflight = {}
    /\ op = NoOp
    /\ result = NoResult
    /\ calls = 0
    /\ ticks = 0
    /\ remoteFailed = FALSE

\* loadEmails of EmailManagement, the request answered (ok) or failed
ManagementLoadEmails(ok) ==
    /\ "loadEmails" \in pending
    /\ pending' = (pending \ {"loadEmails"}) \cup {"filterAndSortEmails"}
    /\ management' =
          [management EXCEPT !.emails = IF ok /\ Len(remote) > 0
                                        THEN ProcessedEmails(remote)
                                        ELSE getSampleEmails]
    /\ UNCHANGED <<hookVars, envVars, panelVars>>

\* load of Sidebar: a failed request keeps the defaults
SidebarLoad(ok) ==
    /\ "load" \in pending
    /\ pending' = pending \ {"load"}
    /\ sidebar' = IF ok THEN SidebarCounts(remote) ELSE sidebar
    /\ UNCHANGED <<hookVars, envVars, management, editor, card>>

\* ResponseEditor is handed the email and its effect runs loadEmailData
LoadEmailData(email) ==
    /\ email # editor.email
    /\ editor' = [email |-> email, extractedInfo |-> extractContactInfo(BodyOf(email))]
    /\ UNCHANGED <<hookVars, envVars, management, pending, card, sidebar>>

\* EmailCard is rendered for the email
RenderEmailCard(email) ==
    /\ email # card.email
    /\ card' = [email |-> email, contactInfo |-> extractContactInfoOfCard(BodyOf(email))]
    /\ UNCHANGED <<hookVars, envVars, management, pending, editor, sidebar>>

TextNext ==
    \/ \E ok \in BOOLEAN : ManagementLoadEmails(ok)
    \/ \E ok \in BOOLEAN : SidebarLoad(ok)
    \/ \E i \in 1..Len(remote) : LoadEmailData(remote[i])
    \/ \E i \in 1..Len(remote) : RenderEmailCard(remote[i])

TextSpec == TextInit /\ [][TextNext]_vars

----------------------------------------------------------------------------
(* Vocabulary of the properties *)

BulkKinds == {"bulkUpdateStatus", "bulkDelete"}

\* a getEmails request that this step put on the wire
SentNow(owner) ==
    \E r \in inflight' \ inflight : r.owner = owner /\ r.now = clock /\ ~r.served

\* every record of list carrying emailId has the fields of updates
HasPatch(list, emailId, updates) ==
    \A k \in 1..Len(list) :
        list[k].id = emailId => \A f \in DOMAIN updates : list[k][f] = updates[f]

\* list and other differ at most in the records carrying emailId
SameElsewhere(list, other, emailId) ==
    /\ Len(list) = Len(other)
    /\ \A k \in 1..Len(list) :
          /\ list[k].id = other[k].id
          /\ list[k].id # emailId => list[k] = other[k]

----------------------------------------------------------------------------
(* C1: updateRecord(id, patch) patches the Store entry in the step that    *)
(* starts the remote update, before that call returns; when the remote     *)
(* call succeeds nothing else changes in the hook and no reload is sent;   *)
(* when it fails a forced reload is sent, and the step in which that       *)
(* reload succeeds leaves the snapshot equal to the remote collection.     *)

C1_UpdateStep ==
    (op = NoOp /\ op'.kind = "updateEmail") =>
        /\ op'.phase = "remote"
        /\ HasPatch(emails', op'.id, op'.patch)
        /\ SameElsewhere(emails', emails, op'.id)
        /\ remote' = remote
        /\ inflight' = inflight

C1_SuccessStep ==
    (op.kind = "updateEmail" /\ op.phase = "remote" /\ op' = NoOp) =>
        /\ UNCHANGED hookVars
        /\ inflight' = inflight
        /\ result' = [call |-> "updateEmail", outcome |-> "resolved", reload |-> "none"]
        /\ HasPatch(remote', op.id, op.patch)

C1_FailureStep ==
    (op.kind = "updateEmail" /\ op.phase = "remote" /\ op' # NoOp /\ op' # op) =>
        /\ op'.phase = "reload"
        /\ SentNow("refreshEmails")
        /\ remote' = remote

C1_ReloadStep ==
    (op.kind = "updateEmail" /\ op.phase = "reload" /\ op' = NoOp
        /\ result'.reload = "ok") =>
        /\ emails' = remote'
        /\ \A k \in 1..Len(emails') : \E j \in 1..Len(remote') : emails'[k] = remote'[j]

----------------------------------------------------------------------------
(* C2: a reload in flight and an optimistic mutation never interleave so   *)
(* that one of them is lost: when no call is pending any more and no       *)
(* remote call has failed, the snapshot loaded from the remote source      *)
(* agrees with the remote collection.                                      *)

Quiescent == inflight = {} /\ op = NoOp

C2_NoLostMutation ==
    (Quiescent /\ ~remoteFailed /\ lastFetch # NullTime) => emails = remote

----------------------------------------------------------------------------
(* C3: a loadEmails(false) call made while the age of the snapshot is      *)
(* below CACHE_DURATION sends no request and leaves the snapshot and       *)
(* lastFetch as they are; a call that is forced, or made with no earlier   *)
(* successful fetch, or made at an age of CACHE_DURATION or more, sends a  *)
(* request.                                                                *)

SnapshotIsYoung == lastFetch # NullTime /\ lastFetch # 0 /\ clock - lastFetch < CACHE_DURATION

C3_LoadStep(forceRefresh) ==
    LoadEmails(forceRefresh) =>
        IF ~forceRefresh /\ SnapshotIsYoung
        THEN /\ inflight' = inflight
             /\ emails' = emails
             /\ filteredEmails' = filteredEmails
             /\ emailCache' = emailCache
             /\ lastFetch' = lastFetch
        ELSE SentNow("loadEmails")

C3_StalenessThreshold == [][\A f \in BOOLEAN : C3_LoadStep(f)]_vars

\* a call at an age below the threshold returned without fetching, and a
\* later call at an age of at least the threshold is on the wire
C3_Witness ==
    /\ result = [call |-> "loadEmails", outcome |-> "resolved", reload |-> "none"]
    /\ lastFetch # NullTime
    /\ \E r \in inflight : r.owner = "loadEmails" /\ r.now - lastFetch >= CACHE_DURATION

----------------------------------------------------------------------------
(* C4: when getEmails fails, the snapshot, the filtered list, the cache    *)
(* and lastFetch stay as they were, the error flag is set, and the promise *)
(* of a plain loadEmails call resolves instead of rejecting.               *)

C4_FailStep(r) ==
    GetEmailsFail(r) =>
        /\ emails' = emails
        /\ filteredEmails' = filteredEmails
        /\ emailCache' = emailCache
        /\ lastFetch' = lastFetch
        /\ error' # Null
        /\ r.owner = "loadEmails" =>
              result' = [call |-> "loadEmails", outcome |-> "resolved", reload |-> "failed"]

----------------------------------------------------------------------------
(* C5: the step that applies a successful getEmails response replaces the  *)
(* snapshot by exactly the records of that response, the empty list        *)
(* included, rebuilds the cache from them, and sets lastFetch to the time  *)
(* of the call; the response holds the remote collection as it was read.   *)

C5_ServeStep(r) ==
    ServeGetEmails(r) =>
        \E a \in inflight' : a.rid = r.rid /\ a.served /\ a.response.emails = remote

C5_OkStep(r) ==
    GetEmailsOk(r) =>
        /\ emails' = r.response.emails
        /\ IdsOf(emails') = IdsOf(r.response.emails)
        /\ Len(emails') = Len(r.response.emails)
        /\ DOMAIN emailCache' = IdsOf(r.response.emails)
        /\ lastFetch' = r.now

----------------------------------------------------------------------------
(* C6: the step that starts deleteRecord(id) removes the record from the   *)
(* snapshot, the filtered list and the cache and keeps the other records;  *)
(* the remote delete fails, and the step in which the forced reload        *)
(* succeeds puts the record back when the remote collection has it.        *)

C6_DeleteStep ==
    (op = NoOp /\ op'.kind = "deleteEmail") =>
        /\ op'.id \notin IdsOf(emails')
        /\ op'.id \notin IdsOf(filteredEmails')
        /\ op'.id \notin DOMAIN emailCache'
        /\ IdsOf(emails') = IdsOf(emails) \ {op'.id}
        /\ IdsOf(filteredEmails') = IdsOf(filteredEmails) \ {op'.id}
        /\ SentNow("refreshEmails")

C6_RestoreStep ==
    (op.kind = "deleteEmail" /\ op' = NoOp /\ result'.reload = "ok") =>
        (op.id \in IdsOf(remote') =>
            /\ op.id \in IdsOf(emails')
            /\ op.id \in DOMAIN emailCache')

C6_DeleteThenRestore == [][C6_DeleteStep /\ C6_RestoreStep]_vars

\* a record of the snapshot has been removed locally, the remote source
\* still has it, and the answer to the forced reload is about to be applied
C6_Witness ==
    /\ op.kind = "deleteEmail"
    /\ op.id \in IdsOf(remote)
    /\ op.id \notin IdsOf(emails)
    /\ Len(emails) = 1
    /\ \E r \in inflight :
          r.owner = "refreshEmails" /\ r.served /\ op.id \in IdsOf(r.response.emails)

----------------------------------------------------------------------------
(* C7: deleteRecord(id) invokes the remote delete operation after the      *)
(* local removal: a pending deleteEmail call has sent a delete request for *)
(* its id and has triggered no reload.                                     *)

C7_RemoteDeleteInvoked ==
    op.kind = "deleteEmail" =>
        /\ \E m \in op.sent : m.id = op.id
        /\ op.phase = "remote"

----------------------------------------------------------------------------
(* C8: bulkUpdateStatus(ids, status) and bulkDelete(ids) apply to every    *)
(* selected id: once the batch has reached its reload, a request has been  *)
(* sent to the remote boundary for each id of the selection.               *)

C8_BulkSendsEveryId ==
    (op.kind \in BulkKinds /\ op.phase = "reload") =>
        \A k \in 1..Len(op.ids) : \E m \in op.sent : m.id = op.ids[k]

----------------------------------------------------------------------------
(* C9 as stated: every invocation of bulkUpdateStatus or bulkDelete ends   *)
(* with the selection empty and a forced reload performed.                 *)

BulkCall == BulkDelete \/ \E s \in BulkStatuses : BulkUpdateStatus(s)

\* the step in which the promise of a bulk call settles
BulkEnds ==
    \/ op.kind \in BulkKinds /\ op' = NoOp
    \/ BulkCall /\ op' = NoOp

C9_StartStep ==
    (BulkCall /\ Len(selectedEmails) > 0) =>
        /\ selectedEmails' = << >>
        /\ selectAll' = FALSE
        /\ SentNow("refreshEmails")
        /\ op'.kind \in BulkKinds
        /\ op'.ids = selectedEmails

C9_EmptyStep ==
    (BulkCall /\ Len(selectedEmails) = 0) =>
        /\ UNCHANGED hookVars
        /\ inflight' = inflight
        /\ op' = NoOp
        /\ result'.reload = "none"

C9_EndStep ==
    (op.kind \in BulkKinds /\ op' # op) =>
        /\ op' = NoOp
        /\ result'.call = op.kind
        /\ result'.outcome = "resolved"
        /\ result'.reload \in {"ok", "failed"}
        /\ \E r \in inflight \ inflight' : r.owner = "refreshEmails"

----------------------------------------------------------------------------
(* C10: in every snapshot reached by load each record has priority,        *)
(* sentiment, category and status populated.                               *)

Populated(email) ==
    /\ email.priority # Unset
    /\ email.sentiment # Unset
    /\ email.category # Unset
    /\ email.status # Unset

C10_LabelsPopulated ==
    lastFetch # NullTime => \A k \in 1..Len(emails) : Populated(emails[k])

----------------------------------------------------------------------------
(* C11: record identifiers are unique within every snapshot: a record      *)
(* ingested with an identifier the snapshot already holds replaces the     *)
(* earlier record, so no two records of emails share an identifier.        *)

C11_UniqueIdentifiers ==
    \A i, j \in 1..Len(emails) : i # j => emails[i].id # emails[j].id

----------------------------------------------------------------------------
(* C12: query combines its predicates with AND.  A record of the snapshot  *)
(* is in the result if and only if it matches the search text (the text,   *)
(* letter case ignored, occurs in its subject or its body or its sender;   *)
(* an empty search matches everything) and each of the priority,           *)
(* sentiment, status, category and date facets, a facet set to 'all'       *)
(* matching every record; a record without subject, body or sender is      *)
(* judged on the fields it has.  The date facet is taken as the component  *)
(* evaluates its bucket (the buckets themselves are C18 to C20).           *)

Applied(effect) == effect \notin pending

Range(list) == {list[i] : i \in 1..Len(list)}

C12_Fold(c) == IF c \in DOMAIN LowerOf THEN LowerOf[c] ELSE c

C12_Occurs(text, part) ==
    \E offset \in 0..(Len(text) - Len(part)) :
        \A k \in 1..Len(part) : C12_Fold(text[offset + k]) = C12_Fold(part[k])

C12_Search(e, search) ==
    \/ search = << >>
    \/ \E field \in {"subject", "body", "sender"} \cap DOMAIN e :
          C12_Occurs(e[field], search)

C12_Facets(e, flt) ==
    \A k \in {"priority", "sentiment", "status", "category"} :
        flt[k] = "all" \/ e[k] = flt[k]

Labels ==
    {"all", "high", "medium", "low", "positive", "negative", "neutral",
     "pending", "in_progress", "resolved", "closed",
     "account", "billing", "technical", "feature", "general"}

C12_Recognised(flt) ==
    \A k \in {"priority", "sentiment", "status", "category"} : flt[k] \in Labels

HookBuckets == {"all", "today", "week", "month"}

ManagementBuckets ==
    {"all", "today", "yesterday", "last7days", "last30days", "thisMonth", "lastMonth"}

C12_AndSemantics ==
    /\ (Applied("applyFiltersAndSorting") /\ C12_Recognised(filters)
            /\ filters.dateRange \in HookBuckets)
        => /\ Range(filteredEmails) =
                {e \in Range(emails) :
                    /\ C12_Search(e, filters.search)
                    /\ C12_Facets(e, filters)
                    /\ MatchesDateRange(e, filters.dateRange, clock)}
           /\ Len(filteredEmails) = Cardinality(Range(filteredEmails))
    /\ (Applied("filterAndSortEmails") /\ C12_Recognised(management.selectedFilters)
            /\ management.selectedFilters.date \in ManagementBuckets)
        => /\ Range(management.filteredEmails) =
                {e \in Range(management.emails) :
                    /\ C12_Search(e, management.searchQuery)
                    /\ C12_Facets(e, management.selectedFilters)
                    /\ MatchesDate(e, management.selectedFilters.date, clock)}
           /\ Len(management.filteredEmails) =
                Cardinality(Range(management.filteredEmails))

\* both effects have run on a search with a facet set, over a snapshot with a
\* record that has no subject; one record matched, one did not
C12_Witness ==
    /\ pending = {}
    /\ filters.search # << >>
    /\ filters.priority = "high"
    /\ \E e \in Range(emails) : "subject" \notin DOMAIN e
    /\ Len(emails) = 2
    /\ Len(filteredEmails) = 1
    /\ Len(management.filteredEmails) = 1

----------------------------------------------------------------------------
(* C13: a malformed (unrecognised) value of the priority, sentiment,       *)
(* status, category or date facet is treated as 'all': the facet then      *)
(* matches every record, so the result is the one the other predicates     *)
(* alone select.                                                           *)

C13_FacetsOpen(e, flt) ==
    \A k \in {"priority", "sentiment", "status", "category"} :
        flt[k] \notin Labels \/ flt[k] = "all" \/ e[k] = flt[k]

C13_MalformedIsAll ==
    /\ Applied("applyFiltersAndSorting")
        => Range(filteredEmails) =
              {e \in Range(emails) :
                  /\ C12_Search(e, filters.search)
                  /\ C13_FacetsOpen(e, filters)
                  /\ filters.dateRange \in HookBuckets
                        => MatchesDateRange(e, filters.dateRange, clock)}
    /\ Applied("filterAndSortEmails")
        => Range(management.filteredEmails) =
              {e \in Range(management.emails) :
                  /\ C12_Search(e, management.searchQuery)
                  /\ C13_FacetsOpen(e, management.selectedFilters)
                  /\ management.selectedFilters.date \in ManagementBuckets
                        => MatchesDate(e, management.selectedFilters.date, clock)}

----------------------------------------------------------------------------
(* C14: the sort is stable for asc and for desc.  Two records with the     *)
(* same value of the sort key keep the relative order they have in the     *)
(* snapshot, and the comparator is antisymmetric: it answers 'equal' for   *)
(* equal keys and opposite signs for the two orders of any pair.           *)

C14_EqualKey(a, b, key) ==
    key \in DOMAIN a /\ key \in DOMAIN b /\ a[key] = b[key]

\* the records of list with equal keys are in the order of the snapshot,
\* where the record of position i carries the identifier i
C14_TiesKeepOrder(list, key) ==
    \A i, j \in 1..Len(list) :
        (i < j /\ C14_EqualKey(list[i], list[j], key)) => list[i].id < list[j].id

C14_StableSort ==
    /\ Applied("applyFiltersAndSorting")
        => /\ C14_TiesKeepOrder(filteredEmails, sortBy)
           /\ \A a, b \in Range(filteredEmails) :
                 a # b =>
                    Compare(a, b, sortBy, sortOrder) = -Compare(b, a, sortBy, sortOrder)
    /\ Applied("filterAndSortEmails")
        => /\ C14_TiesKeepOrder(management.filteredEmails, management.sortBy)
           /\ \A a, b \in Range(management.filteredEmails) :
                 a # b =>
                    CompareValues(a, b, management.sortBy, management.sortOrder) =
                       -CompareValues(b, a, management.sortBy, management.sortOrder)

----------------------------------------------------------------------------
(* C15: filtering a snapshot with every predicate set to 'all' and an      *)
(* empty search returns the snapshot unchanged: the same records in their  *)
(* original snapshot order.                                                *)

AllRecords(flt) ==
    \A k \in {"priority", "sentiment", "status", "category"} : flt[k] = "all"

C15_Arranged(list, key, order, component) ==
    LET Below(a, b) == IF component = "useEmails" THEN Less(a, b, key)
                       ELSE LessValue(a, b, key)
    IN  \A i, j \in 1..Len(list) :
            i < j => IF order = "asc"
                     THEN ~Below(list[j], list[i])
                     ELSE ~Below(list[i], list[j])

----------------------------------------------------------------------------
(* C16: the page index is clamped to [1, ceil(count/pageSize)]: after any  *)
(* sequence of loads, filter or sort changes, goToPage and setPageSize     *)
(* calls, currentPage lies in that range for the current filtered count    *)
(* (page 1 when the count is 0), and the page returned is                  *)
(* filtered[(page-1)*pageSize : page*pageSize].                            *)

C16_LastPage ==
    Max(1, (Len(filteredEmails) + pageSize - 1) \div pageSize)

C16_PageClamped ==
    /\ currentPage >= 1
    /\ currentPage <= C16_LastPage
    /\ paginatedEmails =
          [k \in 1..Max(0, Min(currentPage * pageSize, Len(filteredEmails))
                             - (currentPage - 1) * pageSize) |->
              filteredEmails[(currentPage - 1) * pageSize + k]]

----------------------------------------------------------------------------
(* C17: changing any predicate (search or facet) or any sort parameter     *)
(* (key or order) resets the current page to 1.                            *)

C17_QueryChanges ==
    filters' # filters \/ sortBy' # sortBy \/ sortOrder' # sortOrder

C17_ChangeResetsPage == [][C17_QueryChanges => currentPage' = 1]_vars

\* the sort key was changed with two pages of one record on display: the
\* page is 1 and a second page exists
C17_Witness ==
    /\ sortBy = "sender"
    /\ filters.priority = "all"
    /\ pageSize = 1
    /\ Len(filteredEmails) = 2
    /\ currentPage = 1
    /\ calls = 3

----------------------------------------------------------------------------
(* C18: with 'now' inside a local day D, the bucket today matches exactly  *)
(* the records received at or after the start of D and the bucket          *)
(* yesterday exactly those received in [start of D-1, start of D); the two *)
(* are disjoint: a record one second after the midnight of D is in today   *)
(* and not in yesterday, a record one second before it is in yesterday and *)
(* not in today.                                                           *)

StartOfDay(now) == now - (now % DAY_MS)

\* the query asks for the date bucket alone
OnlyBucket(flt, search, bucket, wanted) ==
    AllRecords(flt) /\ search = << >> /\ bucket = wanted

C18_InBucket(t, bucket, now) ==
    CASE bucket = "today" -> t >= StartOfDay(now)
      [] bucket = "yesterday" -> t >= StartOfDay(now) - DAY_MS /\ t < StartOfDay(now)

C18_TodayYesterday ==
    \A bucket \in {"today", "yesterday"} :
        /\ (Applied("applyFiltersAndSorting")
                /\ OnlyBucket(filters, filters.search, filters.dateRange, bucket))
            => Range(filteredEmails) =
                  {e \in Range(emails) : C18_InBucket(e.received_at, bucket, clock)}
        /\ (Applied("filterAndSortEmails")
                /\ OnlyBucket(management.selectedFilters, management.searchQuery,
                              management.selectedFilters.date, bucket))
            => Range(management.filteredEmails) =
                  {e \in Range(management.emails) :
                      C18_InBucket(e.sent_date, bucket, clock)}

----------------------------------------------------------------------------
(* C19: the buckets last7days and last30days are measured from the query   *)
(* instant: a record matches last7days if and only if it was received at   *)
(* or after now minus 7 days, and last30days if and only if it was         *)
(* received at or after now minus 30 days.  The hook names the two         *)
(* buckets week and month.                                                 *)

C19_Days(bucket) == IF bucket = "last7days" THEN 7 ELSE 30

C19_HookName(bucket) == IF bucket = "last7days" THEN "week" ELSE "month"

C19_FromQueryInstant ==
    \A bucket \in {"last7days", "last30days"} :
        /\ (Applied("applyFiltersAndSorting")
                /\ OnlyBucket(filters, filters.search, filters.dateRange,
                              C19_HookName(bucket)))
            => Range(filteredEmails) =
                  {e \in Range(emails) :
                      e.received_at >= clock - C19_Days(bucket) * DAY_MS}
        /\ (Applied("filterAndSortEmails")
                /\ OnlyBucket(management.selectedFilters, management.searchQuery,
                              management.selectedFilters.date, bucket))
            => Range(management.filteredEmails) =
                  {e \in Range(management.emails) :
                      e.sent_date >= clock - C19_Days(bucket) * DAY_MS}

----------------------------------------------------------------------------
(* C20: the bucket lastMonth matches every record received between the     *)
(* first day and the last day of the previous calendar month, the whole    *)
(* last day included: exactly the records received at or after the first   *)
(* instant of the previous month and before the first instant of the       *)
(* current month, so that a record received since the first day of the     *)
(* previous month is matched by lastMonth or by thisMonth.                 *)

C20_MonthStart(now) == NewDate(getFullYear(now), getMonth(now), 1)

C20_PreviousMonthStart(now) == NewDate(getFullYear(now), getMonth(now) - 1, 1)

C20_LastMonthWholeDays ==
    (Applied("filterAndSortEmails")
        /\ OnlyBucket(management.selectedFilters, management.searchQuery,
                      management.selectedFilters.date, "lastMonth"))
    => Range(management.filteredEmails) =
          {e \in Range(management.emails) :
              /\ e.sent_date >= C20_PreviousMonthStart(clock)
              /\ e.sent_date < C20_MonthStart(clock)}

----------------------------------------------------------------------------
(* C21: priority, sentiment and category are first-match-wins over their   *)
(* lexicons in the stated order (high, medium, low; negative, positive,    *)
(* neutral; account, billing, technical, feature, general), by             *)
(* case-insensitive substring containment: a subject with 'urgent' and     *)
(* 'help' is high, a body with a negative and a positive keyword is        *)
(* negative, and a text with a billing and a technical keyword is billing  *)
(* unless it has an account keyword too.                                   *)

\* loadEmails of EmailManagement has stored what it made of the response
C21_Classified ==
    /\ "loadEmails" \notin pending
    /\ Len(remote) > 0
    /\ Len(management.emails) = Len(remote)

\* the text of a field, empty when the source left the field out
C21_Text(e, field) == IF field \in DOMAIN e THEN e[field] ELSE << >>

C21_Any(text, words) == \E w \in words : C12_Occurs(text, w)

\* a keyword of words occurs in the subject or in the body
C21_Either(e, words) ==
    C21_Any(C21_Text(e, "subject"), words) \/ C21_Any(C21_Text(e, "body"), words)

\* the first label of order whose lexicon has a keyword in the text
C21_PriorityOf(subject) ==
    IF C21_Any(subject, HighWords) THEN "high"
    ELSE IF C21_Any(subject, MediumWords) THEN "medium" ELSE "low"

C21_SentimentOf(body) ==
    IF C21_Any(body, NegativeWords) THEN "negative"
    ELSE IF C21_Any(body, PositiveWords) THEN "positive" ELSE "neutral"

C21_CategoryOf(e) ==
    IF C21_Either(e, AccountWords) THEN "account"
    ELSE IF C21_Either(e, BillingWords) THEN "billing"
    ELSE IF C21_Either(e, TechnicalWords) THEN "technical"
    ELSE IF C21_Either(e, FeatureWords) THEN "feature" ELSE "general"

\* the labels loadEmails gave the record raw, which came without labels
\* and with some text, follow the order of the lexicons
C21_InOrder(raw, e) ==
    /\ C21_Text(raw, "subject") # << >>
          => e.priority = C21_PriorityOf(raw.subject)
    /\ C21_Text(raw, "body") # << >>
          => e.sentiment = C21_SentimentOf(raw.body)
    /\ (C21_Text(raw, "subject") # << >> \/ C21_Text(raw, "body") # << >>)
          => e.category = C21_CategoryOf(raw)

C21_Examples(raw, e) ==
    /\ (C21_Any(C21_Text(raw, "subject"), {<<"u", "r", "g", "e", "n", "t">>})
            /\ C21_Any(C21_Text(raw, "subject"), {<<"h", "e", "l", "p">>}))
          => e.priority = "high"
    /\ (C21_Any(C21_Text(raw, "body"), NegativeWords)
            /\ C21_Any(C21_Text(raw, "body"), PositiveWords))
          => e.sentiment = "negative"

\* the statement with its third example as it was written: every text
\* with a billing and a technical keyword is billing
C21_BillingBeforeTechnical ==
    C21_Classified =>
        \A i \in 1..Len(remote) :
            "priority" \notin DOMAIN remote[i] =>
                /\ C21_InOrder(remote[i], management.emails[i])
                /\ C21_Examples(remote[i], management.emails[i])
                /\ (C21_Either(remote[i], BillingWords)
                        /\ C21_Either(remote[i], TechnicalWords))
                      => management.emails[i].category = "billing"

C21_FirstMatchWins ==
    C21_Classified =>
        \A i \in 1..Len(remote) :
            "priority" \notin DOMAIN remote[i] =>
                /\ C21_InOrder(remote[i], management.emails[i])
                /\ C21_Examples(remote[i], management.emails[i])
                /\ (C21_Either(remote[i], BillingWords)
                        /\ C21_Either(remote[i], TechnicalWords)
                        /\ ~C21_Either(remote[i], AccountWords))
                      => management.emails[i].category = "billing"

\* a record whose subject has 'urgent' and 'help' and whose body has a
\* negative, a positive, a billing and a technical keyword was classified
C21_Witness ==
    /\ C21_Classified
    /\ \E i \in 1..Len(remote) :
          /\ "priority" \notin DOMAIN remote[i]
          /\ C21_Any(C21_Text(remote[i], "subject"), {<<"h", "e", "l", "p">>})
          /\ C21_Any(C21_Text(remote[i], "subject"), HighWords)
          /\ C21_Any(C21_Text(remote[i], "body"), NegativeWords)
          /\ C21_Any(C21_Text(remote[i], "body"), PositiveWords)
          /\ C21_Either(remote[i], BillingWords)
          /\ C21_Either(remote[i], TechnicalWords)
          /\ management.emails[i].priority = "high"
          /\ management.emails[i].sentiment = "negative"
          /\ management.emails[i].category = "billing"

----------------------------------------------------------------------------
(* C22: for every text, the empty string and an absent value included,     *)
(* priority, sentiment and category return one of their fixed values: an   *)
(* empty or absent subject gives medium, an empty or absent body gives     *)
(* neutral, and subject and body both empty give general.                  *)

C22_Priorities == {"high", "medium", "low"}

C22_Sentiments == {"negative", "positive", "neutral"}

C22_Categories == {"account", "billing", "technical", "feature", "general"}

C22_TotalClassifiers ==
    C21_Classified =>
        \A i \in 1..Len(remote) :
            "priority" \notin DOMAIN remote[i] =>
                /\ management.emails[i].priority \in C22_Priorities
                /\ management.emails[i].sentiment \in C22_Sentiments
                /\ management.emails[i].category \in C22_Categories
                /\ C21_Text(remote[i], "subject") = << >>
                      => management.emails[i].priority = "medium"
                /\ C21_Text(remote[i], "body") = << >>
                      => management.emails[i].sentiment = "neutral"
                /\ (C21_Text(remote[i], "subject") = << >>
                        /\ C21_Text(remote[i], "body") = << >>)
                      => management.emails[i].category = "general"

\* a record with an empty subject and no body was classified
C22_Witness ==
    /\ C21_Classified
    /\ \E i \in 1..Len(remote) :
          /\ "priority" \notin DOMAIN remote[i]
          /\ "subject" \in DOMAIN remote[i]
          /\ remote[i].subject = << >>
          /\ "body" \notin DOMAIN remote[i]
          /\ management.emails[i].priority = "medium"
          /\ management.emails[i].sentiment = "neutral"
          /\ management.emails[i].category = "general"

----------------------------------------------------------------------------
(* C23: the statistics of a snapshot give total as the number of records,  *)
(* the count of resolved records and the counts of positive, negative and  *)
(* neutral records; resolutionRate is resolved/total*100, and 0 when total *)
(* is 0, so it lies in [0, 100].                                           *)

C23_Number(field, value) == Len(SelectSeq(emails, LAMBDA e : e[field] = value))

C23_Aggregate ==
    /\ stats.total = Len(emails)
    /\ stats.resolved = C23_Number("status", "resolved")
    /\ stats.sentiment.positive = C23_Number("sentiment", "positive")
    /\ stats.sentiment.negative = C23_Number("sentiment", "negative")
    /\ stats.sentiment.neutral = C23_Number("sentiment", "neutral")
    /\ stats.resolutionRate.den > 0
    /\ Len(emails) = 0 => stats.resolutionRate.num = 0
    /\ Len(emails) > 0 =>
          stats.resolutionRate.num * Len(emails)
              = C23_Number("status", "resolved") * 100 * stats.resolutionRate.den
    /\ 0 <= stats.resolutionRate.num
    /\ stats.resolutionRate.num <= 100 * stats.resolutionRate.den

\* a snapshot of two records, one of them resolved: the rate is 50
C23_Witness ==
    /\ stats.total = 2
    /\ stats.resolved = 1
    /\ stats.resolutionRate.num = 50 * stats.resolutionRate.den
    /\ stats.sentiment.negative = 1

----------------------------------------------------------------------------
(* C24: the extracted emails, phones and names are deduplicated: for every *)
(* text the lists returned hold no value twice, names that follow          *)
(* different markers included, once the marker has been stripped.          *)

C24_NoRepeat(list) == \A i, j \in 1..Len(list) : list[i] = list[j] => i = j

C24_Deduplicated ==
    /\ \A field \in DOMAIN editor.extractedInfo :
          C24_NoRepeat(editor.extractedInfo[field])
    /\ \A field \in DOMAIN card.contactInfo :
          C24_NoRepeat(card.contactInfo[field])

----------------------------------------------------------------------------
(* C25: the load-failure flag (error) set by a failed fetch stays set      *)
(* until a later fetch succeeds: a load that is skipped because the        *)
(* snapshot is still fresh does not clear it.                              *)

\* the flag is cleared in this step
C25_Cleared == error # Null /\ error' = Null

\* a response of getEmails arrives in this step
C25_FetchSucceeds == \E r \in inflight : r.served /\ r \notin inflight' /\ lastFetch' = r.now

C25_ErrorUntilSuccess == [][C25_Cleared => C25_FetchSucceeds]_vars

----------------------------------------------------------------------------
(* C26: every id in the active selection refers to a record of the current *)
(* snapshot: after deleteEmail(id), after a reload that no longer returns  *)
(* a record and after a filter change, no id of selectedEmails is absent   *)
(* from emails.                                                            *)

C26_SelectionInSnapshot ==
    \A k \in 1..Len(selectedEmails) : selectedEmails[k] \in IdsOf(emails)

----------------------------------------------------------------------------
(* C27: when the remote call of updateEmail fails and the forced reload    *)
(* that follows fails as well, the optimistic patch stays in the snapshot  *)
(* (no rollback of the fields), the failure flag is set and the remote     *)
(* error is re-thrown to the caller of updateEmail.                        *)

\* the forced reload of a rejected updateEmail fails in this step
C27_ReloadFails ==
    /\ op.kind = "updateEmail"
    /\ op.phase = "reload"
    /\ op' = NoOp
    /\ result'.reload = "failed"

C27_PatchStays ==
    [][C27_ReloadFails =>
          /\ HasPatch(emails', op.id, op.patch)
          /\ error' # Null
          /\ result' = [call |-> "updateEmail", outcome |-> "rejected",
                        reload |-> "failed"]]_vars

----------------------------------------------------------------------------
(* C28: the loading flag is true whenever a getEmails request started by   *)
(* loadEmails is in flight and false once none is, for every interleaving  *)
(* of overlapping load, refresh and bulk operations.                       *)

C28_LoadingWhileInFlight == loading <=> inflight # {}

----------------------------------------------------------------------------
(* C29: the selectAll flag is true exactly when the filtered list is not   *)
(* empty and every record of it is selected: after any sequence of         *)
(* toggleEmailSelection, selectAllEmails, filter changes, deletes and      *)
(* reloads, selectAll holds if and only if the set of selected ids equals  *)
(* the set of filtered ids.                                                *)

C29_SelectAllIffAllSelected ==
    selectAll <=>
        /\ Len(filteredEmails) > 0
        /\ {selectedEmails[k] : k \in 1..Len(selectedEmails)} = IdsOf(filteredEmails)

----------------------------------------------------------------------------
(* C30: for every snapshot whose priority labels were all produced by the  *)
(* keyword classifier, the urgent count of the statistics is 0: the        *)
(* classifier yields high, medium or low only, while the statistics count  *)
(* the records whose priority is 'urgent'.                                 *)

\* no record of the response came with a priority of its own
C30_AllFromClassifier ==
    /\ C21_Classified
    /\ \A i \in 1..Len(remote) : "priority" \notin DOMAIN remote[i]

C30_UrgentCountIsZero ==
    C30_AllFromClassifier =>
        /\ \A i \in 1..Len(management.emails) :
              management.emails[i].priority \in {"high", "medium", "low"}
        /\ Stats(management.emails).urgent = 0
        /\ SidebarCounts(management.emails).urgentCount = 0
        /\ sidebar.urgentCount = 0

\* a snapshot with a record the classifier called high, the quick stats of
\* Sidebar loaded
C30_Witness ==
    /\ C30_AllFromClassifier
    /\ "load" \notin pending
    /\ sidebar.totalCount = Len(remote)
    /\ \E i \in 1..Len(management.emails) : management.emails[i].priority = "high"
    /\ Stats(management.emails).urgent = 0
    /\ Stats(management.emails).total = Len(remote)

====
